---- MODULE Spec2Model ----
(***************************************************************************)
(* Sistema de Recomendacion Musical (K-Nearest Neighbors), src/main.py.    *)
(*                                                                         *)
(* Specifications over one set of variables:                               *)
(*   SpecEngine      the engine's two operations (encontrar_k_vecinos and  *)
(*                   recomendar) applied once to a catalog, a query point  *)
(*                   and a k drawn from bounded sets;                      *)
(*   Spec            the web application: the system built by __init__     *)
(*                   (seeded generator), the Dash controls and their       *)
(*                   callbacks, on a catalog of NCanciones songs;          *)
(*   SpecGenerador   _generar_canciones applied to drawn counts from any   *)
(*                   state of the generator;                               *)
(*   SpecDistancia   calcular_distancia applied to drawn pairs of points;  *)
(*   SpecCatalogo100 the K slider over its whole range on the catalog of   *)
(*                   100 songs that __init__ builds;                       *)
(*   SpecConcurrente two actualizar_visualizacion requests served at once  *)
(*                   by the threaded server.                               *)
(*                                                                         *)
(* Numbers.  Feature values are integers.  A distance is the Euclidean     *)
(* norm in fixed point: the integer part of Escala * sqrt(sum of squares). *)
(* The optional values of the program (None or a dict) are sequences of    *)
(* length 0 or 1.  A Python dict (insertion ordered) is the sequence of    *)
(* its (key, value) items.                                                 *)
(***************************************************************************)
EXTENDS Integers, Sequences, FiniteSets, TLC

VARIABLES
    canciones,            \* self.canciones: the catalog
    k_actual,             \* self.k_actual
    punto_consulta,       \* self.punto_consulta (<<>> is None)
    vecinos_cercanos,     \* self.vecinos_cercanos
    rng,                  \* the state of numpy's process-global generator
    k_slider,             \* 'k-slider'.value
    energia_slider,       \* 'energia-slider'.value
    bailabilidad_slider,  \* 'bailabilidad-slider'.value
    valencia_slider,      \* 'valencia-slider'.value
    random_values,        \* dcc.Store 'random-values'.data (<<>> is None)
    pagina_cargada,       \* a browser holds the page and its controls
    llamada,              \* the last engine call: operation and arguments
    resultado,            \* what that call raised or returned
    primera,              \* the first recomendar call of the run, with its result
    generacion,           \* the last _generar_canciones call and its result (<<>>: none)
    distancia,            \* the last calcular_distancia calls and their results (<<>>: none)
    peticiones            \* the actualizar_visualizacion requests being served at once

vars == <<canciones, k_actual, punto_consulta, vecinos_cercanos, rng,
          k_slider, energia_slider, bailabilidad_slider, valencia_slider,
          random_values, pagina_cargada, llamada, resultado, primera,
          generacion, distancia, peticiones>>

sistemaVars == <<canciones, k_actual, punto_consulta, vecinos_cercanos>>
uiVars == <<k_slider, energia_slider, bailabilidad_slider, valencia_slider,
            random_values, pagina_cargada>>
\* The records of the calls made in the other specifications.
otrasVars == <<generacion, distancia, peticiones>>

----------------------------------------------------------------------------
(* Bounds of the model *)

\* Longest catalog SpecEngine draws.
MaxCat == 3
\* Fixed-point scale of a distance (distances are kept to 1/Escala).
Escala == 100
\* Number of states of the abstract pseudo-random generator.
RngMod == 11
\* Catalog size used by Spec in place of the 100 of __init__.
NCanciones == 4
\* Largest count SpecGenerador asks _generar_canciones for.
MaxGen == 7

(* Program constants *)

Semilla == 42
KInicial == 5
KSliderMin == 1
KSliderMax == 30
SliderMin == 0
SliderMax == 100
SliderInicial == 50
RandomMin == 10
RandomMax == 90
NombreMod == 20
NCancionesReal == 100

----------------------------------------------------------------------------
(* Python and numpy primitives *)

Min2(a, b) == IF a <= b THEN a ELSE b
Max2(a, b) == IF a >= b THEN a ELSE b

\* s[:k] of a Python list: k >= 0 keeps the first k, k < 0 drops the last -k.
PySliceTo(s, k) ==
    LET n == Len(s)
        stop == IF k < 0 THEN Max2(n + k, 0) ELSE Min2(k, n)
    IN SubSeq(s, 1, stop)

\* Statement order: primero is evaluated, then despues is the value.
Luego(primero, despues) == IF primero = primero THEN despues ELSE despues

\* Integer square root by bisection: the r with r*r <= x < (r+1)*(r+1).
RECURSIVE ISqrtIn(_, _, _)
ISqrtIn(x, lo, hi) ==
    IF lo >= hi THEN lo
    ELSE LET mid == (lo + hi + 1) \div 2
         IN IF mid * mid <= x THEN ISqrtIn(x, mid, hi)
                              ELSE ISqrtIn(x, lo, mid - 1)

ISqrt(x) == ISqrtIn(x, 0, Min2(x, 46340))

\* np.linalg.norm of a 3-vector, in units of 1/Escala.
Norm(dx, dy, dz) == ISqrt(Escala * Escala * (dx * dx + dy * dy + dz * dz))

\* np.random.seed(s): the generator's state is a function of the seed alone.
NpRandomSeed(s) == s % RngMod

\* One step of the generator (a counter stands for the Mersenne Twister:
\* deterministic, finite state, one step per draw).
NpRandomNext(r) == (r + 1) % RngMod

\* np.random.choice(seq) drawn from state r: an element of seq.
NpRandomChoice(seq, r) == seq[((r * Len(seq)) \div RngMod) + 1]

\* Mutant: the draw spreads over twice the width of the interval.
NpRandomUniform_doble_ancho(lo, hi, r) == lo + (((hi - lo) * 2 * r) \div RngMod)

\* np.random.uniform(lo, hi) drawn from state r: a value in [lo, hi).
NpRandomUniform(lo, hi, r) == lo + (((hi - lo) * r) \div RngMod)

----------------------------------------------------------------------------
(* SistemaRecomendacionMusical *)

\* Mutant: the last genre is spelled in a way the colour table does not have.
generos_otra_grafia ==
    <<"Pop", "Rock", "EDM", "Jazz", "Reggaeton", "Indie", "Hip Hop", "Classical">>

\* self.generos (the last name is written without its accent).
generos == <<"Pop", "Rock", "EDM", "Jazz", "Reggaeton", "Indie", "Hip Hop", "Clasica">>

Rango(lo, hi) == <<lo, hi>>

caracteristicas_genero ==
    [g \in {generos[i] : i \in 1..Len(generos)} |->
        CASE g = "Pop"       -> <<Rango(60, 80),  Rango(70, 90),  Rango(60, 85)>>
          [] g = "Rock"      -> <<Rango(70, 95),  Rango(40, 70),  Rango(40, 70)>>
          [] g = "EDM"       -> <<Rango(80, 100), Rango(75, 95),  Rango(60, 90)>>
          [] g = "Jazz"      -> <<Rango(20, 50),  Rango(30, 60),  Rango(40, 70)>>
          [] g = "Reggaeton" -> <<Rango(70, 90),  Rango(80, 100), Rango(65, 85)>>
          [] g = "Indie"     -> <<Rango(40, 70),  Rango(40, 70),  Rango(45, 75)>>
          [] g = "Hip Hop"   -> <<Rango(60, 85),  Rango(70, 90),  Rango(40, 70)>>
          [] OTHER           -> <<Rango(20, 40),  Rango(10, 30),  Rango(50, 80)>>]

\* self.colores_generos (lines 27-36).
colores_generos ==
    ("Pop" :> "#FF1493") @@ ("Rock" :> "#FF4500") @@ ("EDM" :> "#00FFFF")
    @@ ("Jazz" :> "#FFD700") @@ ("Reggaeton" :> "#FF69B4")
    @@ ("Indie" :> "#9370DB") @@ ("Hip Hop" :> "#32CD32")
    @@ ("Clasica" :> "#87CEEB")

\* A point of the feature space: what calcular_distancia reads of its arguments.
Punto(e, b, v) == [energia |-> e, bailabilidad |-> b, valencia |-> v]

\* Mutant: the ids are numbered from 1.
Cancion_id_desde_1(i, g, e, b, v) ==
    [id |-> i + 1, nombre |-> <<g, (i % NombreMod) + 1>>, genero |-> g,
     energia |-> e, bailabilidad |-> b, valencia |-> v]

\* Mutant: the energia and valencia draws are stored under each other's key.
Cancion_ejes_cambiados(i, g, e, b, v) ==
    [id |-> i, nombre |-> <<g, (i % NombreMod) + 1>>, genero |-> g,
     energia |-> v, bailabilidad |-> b, valencia |-> e]

\* The dict built for song i of genre g.
Cancion(i, g, e, b, v) ==
    [id |-> i, nombre |-> <<g, (i % NombreMod) + 1>>, genero |-> g,
     energia |-> e, bailabilidad |-> b, valencia |-> v]

\* _generar_canciones: the iterations i .. n-1 of the loop, drawing from
\* generator state r and appending to acc; returns the list and the
\* generator's state after the last draw.  A range of several iterations is
\* its first half followed by its second half.
RECURSIVE GenerarDesde(_, _, _, _)
GenerarDesde(i, n, r, acc) ==
    IF i >= n THEN [canciones |-> acc, rng |-> r]
    ELSE IF n - i > 1
    THEN LET m == (i + n) \div 2
             izq == GenerarDesde(i, m, r, acc)
         IN Luego(izq, GenerarDesde(m, n, izq.rng, izq.canciones))
    ELSE LET r1 == NpRandomNext(r)
             genero == NpRandomChoice(generos, r1)
             rangos == caracteristicas_genero[genero]
             r2 == NpRandomNext(r1)
             r3 == NpRandomNext(r2)
             r4 == NpRandomNext(r3)
             cancion == Cancion(i, genero,
                                NpRandomUniform(rangos[1][1], rangos[1][2], r2),
                                NpRandomUniform(rangos[2][1], rangos[2][2], r3),
                                NpRandomUniform(rangos[3][1], rangos[3][2], r4))
         IN [canciones |-> Append(acc, cancion), rng |-> r4]

generar_canciones(n_canciones, r) == GenerarDesde(0, n_canciones, r, <<>>)

\* Mutant: the norm leaves the valencia axis out.
calcular_distancia_sin_valencia(cancion1, cancion2) ==
    Norm(cancion1.energia - cancion2.energia,
         cancion1.bailabilidad - cancion2.bailabilidad, 0)

\* Mutant: the second song's valencia is not subtracted.
calcular_distancia_sin_restar(cancion1, cancion2) ==
    Norm(cancion1.energia - cancion2.energia,
         cancion1.bailabilidad - cancion2.bailabilidad,
         cancion1.valencia)

calcular_distancia(cancion1, cancion2) ==
    Norm(cancion1.energia - cancion2.energia,
         cancion1.bailabilidad - cancion2.bailabilidad,
         cancion1.valencia - cancion2.valencia)

\* Mutant: an unstable sort, an element goes before the elements of equal key.
InsertarOrdenado_antes(acc, x) ==
    LET p == Cardinality({j \in 1..Len(acc) : acc[j][2] < x[2]})
    IN SubSeq(acc, 1, p) \o <<x>> \o SubSeq(acc, p + 1, Len(acc))

\* list.sort(key=lambda x: x[1]) is stable: an element goes after every
\* element already placed whose key is not larger.
InsertarOrdenado(acc, x) ==
    LET p == Cardinality({j \in 1..Len(acc) : acc[j][2] <= x[2]})
    IN SubSeq(acc, 1, p) \o <<x>> \o SubSeq(acc, p + 1, Len(acc))

\* The elements s[lo..hi] placed one after the other, in list order, into acc.
RECURSIVE InsertarRango(_, _, _, _)
InsertarRango(acc, s, lo, hi) ==
    IF lo > hi THEN acc
    ELSE IF lo = hi THEN InsertarOrdenado(acc, s[lo])
    ELSE LET m == (lo + hi) \div 2
             izq == InsertarRango(acc, s, lo, m)
         IN Luego(izq, InsertarRango(izq, s, m + 1, hi))

SortPorDistancia(s) == InsertarRango(<<>>, s, 1, Len(s))

\* The list of (cancion, dist) pairs in catalog order (lines 90-94).
Distancias(cat, punto) ==
    [i \in 1..Len(cat) |-> <<cat[i], calcular_distancia(punto, cat[i])>>]

\* Mutant: the sort of line 97 is missing.
encontrar_k_vecinos_sin_sort(cat, punto, k) ==
    PySliceTo(Distancias(cat, punto), k)

encontrar_k_vecinos(cat, punto, k) ==
    PySliceTo(SortPorDistancia(Distancias(cat, punto)), k)

\* Mutant: a genre already counted is set to 1 again instead of incremented.
Incrementar_sin_sumar(conteo, genero) ==
    IF \E j \in 1..Len(conteo) : conteo[j][1] = genero
    THEN conteo
    ELSE Append(conteo, <<genero, 1>>)

\* conteo_generos[genero] = conteo_generos.get(genero, 0) + 1 on the dict
\* kept as its item sequence: a new key goes last, a known key keeps its place.
Incrementar(conteo, genero) ==
    IF \E j \in 1..Len(conteo) : conteo[j][1] = genero
    THEN [j \in 1..Len(conteo) |->
            IF conteo[j][1] = genero THEN <<genero, conteo[j][2] + 1>>
                                     ELSE conteo[j]]
    ELSE Append(conteo, <<genero, 1>>)

\* The loop of lines 106-108 over vecinos[lo..hi], starting from conteo.
RECURSIVE ContarRango(_, _, _, _)
ContarRango(conteo, vecinos, lo, hi) ==
    IF lo > hi THEN conteo
    ELSE IF lo = hi THEN Incrementar(conteo, vecinos[lo][1].genero)
    ELSE LET m == (lo + hi) \div 2
             izq == ContarRango(conteo, vecinos, lo, m)
         IN Luego(izq, ContarRango(izq, vecinos, m + 1, hi))

ContarGeneros(vecinos) == ContarRango(<<>>, vecinos, 1, Len(vecinos))

\* Mutant: the first item is taken, whatever its count.
PyMaxItem_primero(items) == items[1]

\* Mutant: of the items with the largest value the last one is taken.
PyMaxItem_ultimo(items) ==
    LET p == CHOOSE j \in 1..Len(items) :
                 /\ \A i \in 1..Len(items) : items[i][2] <= items[j][2]
                 /\ \A i \in (j + 1)..Len(items) : items[i][2] < items[j][2]
    IN items[p]

\* max(items, key=lambda x: x[1]) of a non-empty sequence: the first item
\* whose value no item exceeds.
PyMaxItem(items) ==
    LET p == CHOOSE j \in 1..Len(items) :
                 /\ \A i \in 1..Len(items) : items[i][2] <= items[j][2]
                 /\ \A i \in 1..(j - 1) : items[i][2] < items[j][2]
    IN items[p]

Retorno(vecinos, genero, conteo) ==
    [raised |-> "none", vecinos |-> vecinos, genero |-> <<genero>>,
     conteo |-> <<conteo>>]
Excepcion(tipo) ==
    [raised |-> tipo, vecinos |-> <<>>, genero |-> <<>>, conteo |-> <<>>]

\* What a call of encontrar_k_vecinos hands back: it has no raise.
RetEncontrar(cat, punto, k) ==
    [raised |-> "none", vecinos |-> encontrar_k_vecinos(cat, punto, k),
     genero |-> <<>>, conteo |-> <<>>]

\* Mutant: the neighbours are cut at the stored self.k_actual, not at k.
recomendar_con_k_actual(cat, punto, k) ==
    LET vecinos == encontrar_k_vecinos(cat, punto, k_actual)
        conteo_generos == ContarGeneros(vecinos)
    IN IF conteo_generos = <<>>
       THEN Excepcion("ValueError")
       ELSE Retorno(vecinos, PyMaxItem(conteo_generos)[1], conteo_generos)

\* recomendar: max() of an empty sequence raises ValueError.
recomendar(cat, punto, k) ==
    LET vecinos == encontrar_k_vecinos(cat, punto, k)
        conteo_generos == ContarGeneros(vecinos)
    IN IF conteo_generos = <<>>
       THEN Excepcion("ValueError")
       ELSE Retorno(vecinos, PyMaxItem(conteo_generos)[1], conteo_generos)

\* Mutant: the catalog itself is sorted by distance (self.canciones.sort).
ObjetosTrasLlamada_sort_en_sitio(cat, punto) ==
    LET s == SortPorDistancia(Distancias(cat, punto))
    IN [canciones |-> [i \in 1..Len(s) |-> s[i][1]], punto |-> punto]

\* The two objects encontrar_k_vecinos and recomendar are handed by
\* reference, as they are when the call returns: self.canciones is iterated
\* and the query is read; the list appended to and sorted is the local
\* distancias (lines 90-98), the dict written is the local conteo_generos
\* (lines 105-108).
ObjetosTrasLlamada(cat, punto) == [canciones |-> cat, punto |-> punto]

----------------------------------------------------------------------------
(* SpecEngine: one call of an engine operation on drawn inputs *)

\* Labels and points the drawn catalogs are built from.
Etiquetas == {"X", "Y"}
PuntosMuestra == {Punto(0, 0, 0), Punto(10, 0, 0), Punto(100, 100, 100),
                  Punto(1, 0, 9)}
Consultas == {Punto(1, 0, 0), Punto(0, 9, 0), Punto(50, 50, 50)}

\* Values of k offered to the engine: negative, zero, and up to past the
\* longest catalog.
KValores == (0 - 2)..(MaxCat + 1)

Muestras == [genero : Etiquetas, punto : PuntosMuestra]

\* Every catalog of at most MaxCat songs over Muestras; the song at list
\* position i has id i - 1, as _generar_canciones numbers them.
Catalogos ==
    UNION {{[i \in 1..n |-> Cancion(i - 1, f[i].genero, f[i].punto.energia,
                                    f[i].punto.bailabilidad, f[i].punto.valencia)]
            : f \in [1..n -> Muestras]} : n \in 0..MaxCat}

SinLlamada == [op |-> "none", punto |-> <<>>, k |-> 0]
SinResultado == [raised |-> "none", vecinos |-> <<>>, genero |-> <<>>, conteo |-> <<>>]

InitEngine ==
    /\ canciones \in Catalogos
    /\ k_actual = KInicial
    /\ punto_consulta = <<>>
    /\ vecinos_cercanos = <<>>
    /\ rng = NpRandomSeed(Semilla)
    /\ k_slider = KInicial
    /\ energia_slider = SliderInicial
    /\ bailabilidad_slider = SliderInicial
    /\ valencia_slider = SliderInicial
    /\ random_values = <<>>
    /\ pagina_cargada = FALSE
    /\ llamada = SinLlamada
    /\ resultado = SinResultado
    /\ primera = <<>>
    /\ generacion = <<>>
    /\ distancia = <<>>
    /\ peticiones = <<>>

LlamarEncontrar(punto, k) ==
    LET tras == ObjetosTrasLlamada(canciones, punto)
    IN /\ llamada.op = "none"
       /\ llamada' = [op |-> "encontrar_k_vecinos", punto |-> <<tras.punto>>,
                      k |-> k]
       /\ resultado' = RetEncontrar(canciones, punto, k)
       /\ canciones' = tras.canciones
       /\ UNCHANGED <<k_actual, punto_consulta, vecinos_cercanos, rng, uiVars,
                      primera, otrasVars>>

LlamarRecomendar(punto, k) ==
    LET tras == ObjetosTrasLlamada(canciones, punto)
    IN /\ llamada.op = "none"
       /\ llamada' = [op |-> "recomendar", punto |-> <<tras.punto>>, k |-> k]
       /\ resultado' = recomendar(canciones, punto, k)
       /\ canciones' = tras.canciones
       /\ UNCHANGED <<k_actual, punto_consulta, vecinos_cercanos, rng, uiVars,
                      primera, otrasVars>>

NextEngine ==
    \E punto \in Consultas, k \in KValores :
        \/ LlamarEncontrar(punto, k)
        \/ LlamarRecomendar(punto, k)

SpecEngine == InitEngine /\ [][NextEngine]_vars

----------------------------------------------------------------------------
(* Spec: the web application *)

\* Values the controls are moved to: a sample of the 0..100 and 1..30 ranges
\* of the sliders, with their initial values.
SliderMuestras == {SliderInicial, SliderMax}
KMuestras == {KSliderMin, KSliderMin + 1, KInicial, KSliderMax}

\* The states the process-global generator may be in.
RngEstados == 0..(RngMod - 1)

\* Mutant: np.random.seed is not called, the generator stays as it was.
SembrarGenerador_omitido(r0, semilla) == r0

\* np.random.seed(semilla) on a generator in state r0 (line 23).
SembrarGenerador(r0, semilla) == NpRandomSeed(semilla)

\* Mutant: the catalog is generated with a tenth of the songs asked for.
SistemaDe_decima_parte(n_canciones, r0) ==
    LET gen == generar_canciones(n_canciones \div 10,
                                 SembrarGenerador(r0, Semilla))
    IN [canciones |-> gen.canciones, rng |-> gen.rng,
        k_actual |-> KInicial, punto_consulta |-> <<>>, vecinos_cercanos |-> <<>>]

\* SistemaRecomendacionMusical.__init__ in a process whose generator is in
\* state r0: the fields of the new object and the generator's state after.
SistemaDe(n_canciones, r0) ==
    LET gen == generar_canciones(n_canciones, SembrarGenerador(r0, Semilla))
    IN [canciones |-> gen.canciones, rng |-> gen.rng,
        k_actual |-> KInicial, punto_consulta |-> <<>>, vecinos_cercanos |-> <<>>]

\* The system with the catalog cut to NCanciones songs.
SistemaInit(r0) == SistemaDe(NCanciones, r0)

PuntoInicial == Punto(SliderInicial, SliderInicial, SliderInicial)

\* main(): the system, then AplicacionWebKNN.__init__ which sets the query
\* point and k of the system (lines 125-130).
Construir(r0) ==
    LET sis == SistemaInit(r0)
    IN /\ canciones' = sis.canciones
       /\ rng' = sis.rng
       /\ vecinos_cercanos' = sis.vecinos_cercanos
       /\ punto_consulta' = <<PuntoInicial>>
       /\ k_actual' = KInicial

Init ==
    \E r0 \in RngEstados :
        LET sis == SistemaInit(r0)
        IN /\ canciones = sis.canciones
           /\ rng = sis.rng
           /\ vecinos_cercanos = sis.vecinos_cercanos
           /\ punto_consulta = <<PuntoInicial>>
           /\ k_actual = KInicial
           /\ k_slider = KInicial
           /\ energia_slider = SliderInicial
           /\ bailabilidad_slider = SliderInicial
           /\ valencia_slider = SliderInicial
           /\ random_values = <<>>
           /\ pagina_cargada = FALSE
           /\ llamada = SinLlamada
           /\ resultado = SinResultado
           /\ primera = <<>>
           /\ generacion = <<>>
           /\ distancia = <<>>
           /\ peticiones = <<>>

\* main() run again: app.run(debug=True) restarts the process when it
\* reloads; the new process's generator starts in any state.  The page in
\* the browser keeps its controls.
Main ==
    \E r0 \in RngEstados :
        /\ Construir(r0)
        /\ UNCHANGED <<uiVars, llamada, resultado, primera, otrasVars>>

\* Mutant: crear_grafico_3d keeps only the neighbours as the catalog
\* (self.sistema.canciones = [c for c, _ in vecinos]).
ActualizarVisualizacion_guarda_vecinos(k, energia, bailabilidad, valencia, random_data) ==
    LET punto == IF random_data # <<>>
                 THEN Punto(random_data[1].energia, random_data[1].bailabilidad,
                            random_data[1].valencia)
                 ELSE Punto(energia, bailabilidad, valencia)
        call == [op |-> "recomendar", punto |-> <<punto>>, k |-> k]
        res == recomendar(canciones, punto, k)
    IN /\ punto_consulta' = <<punto>>
       /\ k_actual' = k
       /\ llamada' = call
       /\ resultado' = res
       /\ primera' = IF primera = <<>>
                     THEN <<[llamada |-> call, resultado |-> res]>>
                     ELSE primera
       /\ canciones' = [i \in 1..Len(res.vecinos) |-> res.vecinos[i][1]]
       /\ UNCHANGED <<vecinos_cercanos, otrasVars>>

\* actualizar_visualizacion(k, energia, bailabilidad, valencia, random_data)
\* with crear_grafico_3d: the stored values win over the sliders, the point
\* and k are stored in the system, and recomendar is called with them.
ActualizarVisualizacion(k, energia, bailabilidad, valencia, random_data) ==
    LET punto == IF random_data # <<>>
                 THEN Punto(random_data[1].energia, random_data[1].bailabilidad,
                            random_data[1].valencia)
                 ELSE Punto(energia, bailabilidad, valencia)
        tras == ObjetosTrasLlamada(canciones, punto)
        call == [op |-> "recomendar", punto |-> <<tras.punto>>, k |-> k]
        res == recomendar(canciones, punto, k)
    IN /\ punto_consulta' = <<tras.punto>>
       /\ k_actual' = k
       /\ llamada' = call
       /\ resultado' = res
       /\ primera' = IF primera = <<>>
                     THEN <<[llamada |-> call, resultado |-> res]>>
                     ELSE primera
       /\ canciones' = tras.canciones
       /\ UNCHANGED <<vecinos_cercanos, otrasVars>>

\* The page is loaded: the controls take the values of the layout and Dash
\* fires actualizar_visualizacion once.
CargarPagina ==
    /\ pagina_cargada' = TRUE
    /\ k_slider' = KInicial
    /\ energia_slider' = SliderInicial
    /\ bailabilidad_slider' = SliderInicial
    /\ valencia_slider' = SliderInicial
    /\ random_values' = <<>>
    /\ ActualizarVisualizacion(KInicial, SliderInicial, SliderInicial,
                               SliderInicial, <<>>)
    /\ UNCHANGED rng

CambiarK ==
    \E k \in KMuestras \ {k_slider} :
        /\ pagina_cargada
        /\ k_slider' = k
        /\ ActualizarVisualizacion(k, energia_slider, bailabilidad_slider,
                                   valencia_slider, random_values)
        /\ UNCHANGED <<energia_slider, bailabilidad_slider, valencia_slider,
                       random_values, pagina_cargada, rng>>

CambiarEnergia ==
    \E x \in SliderMuestras \ {energia_slider} :
        /\ pagina_cargada
        /\ energia_slider' = x
        /\ ActualizarVisualizacion(k_slider, x, bailabilidad_slider,
                                   valencia_slider, random_values)
        /\ UNCHANGED <<k_slider, bailabilidad_slider, valencia_slider,
                       random_values, pagina_cargada, rng>>

CambiarBailabilidad ==
    \E x \in SliderMuestras \ {bailabilidad_slider} :
        /\ pagina_cargada
        /\ bailabilidad_slider' = x
        /\ ActualizarVisualizacion(k_slider, energia_slider, x,
                                   valencia_slider, random_values)
        /\ UNCHANGED <<k_slider, energia_slider, valencia_slider,
                       random_values, pagina_cargada, rng>>

CambiarValencia ==
    \E x \in SliderMuestras \ {valencia_slider} :
        /\ pagina_cargada
        /\ valencia_slider' = x
        /\ ActualizarVisualizacion(k_slider, energia_slider,
                                   bailabilidad_slider, x, random_values)
        /\ UNCHANGED <<k_slider, energia_slider, bailabilidad_slider,
                       random_values, pagina_cargada, rng>>

\* generar_aleatorio_o_reset triggered by 'random-button': three draws, stored
\* and written to the sliders; the outputs fire actualizar_visualizacion.
ClicAleatorio ==
    LET r1 == NpRandomNext(rng)
        r2 == NpRandomNext(r1)
        r3 == NpRandomNext(r2)
        energia == NpRandomUniform(RandomMin, RandomMax, r1)
        bailabilidad == NpRandomUniform(RandomMin, RandomMax, r2)
        valencia == NpRandomUniform(RandomMin, RandomMax, r3)
        data == <<Punto(energia, bailabilidad, valencia)>>
    IN /\ pagina_cargada
       /\ rng' = r3
       /\ random_values' = data
       /\ energia_slider' = energia
       /\ bailabilidad_slider' = bailabilidad
       /\ valencia_slider' = valencia
       /\ ActualizarVisualizacion(k_slider, energia, bailabilidad, valencia, data)
       /\ UNCHANGED <<k_slider, pagina_cargada>>

\* Mutant: the reset writes the sliders but keeps the stored random query.
ClicReset_conserva_aleatorio ==
    /\ pagina_cargada
    /\ random_values' = random_values
    /\ energia_slider' = SliderInicial
    /\ bailabilidad_slider' = SliderInicial
    /\ valencia_slider' = SliderInicial
    /\ ActualizarVisualizacion(k_slider, SliderInicial, SliderInicial,
                               SliderInicial, random_values)
    /\ UNCHANGED <<k_slider, pagina_cargada, rng>>

\* generar_aleatorio_o_reset triggered by 'reset-button'.
ClicReset ==
    /\ pagina_cargada
    /\ random_values' = <<>>
    /\ energia_slider' = SliderInicial
    /\ bailabilidad_slider' = SliderInicial
    /\ valencia_slider' = SliderInicial
    /\ ActualizarVisualizacion(k_slider, SliderInicial, SliderInicial,
                               SliderInicial, <<>>)
    /\ UNCHANGED <<k_slider, pagina_cargada, rng>>

Next ==
    \/ Main
    \/ CargarPagina
    \/ CambiarK
    \/ CambiarEnergia
    \/ CambiarBailabilidad
    \/ CambiarValencia
    \/ ClicAleatorio
    \/ ClicReset

Spec == Init /\ [][Next]_vars

----------------------------------------------------------------------------
(* SpecGenerador: _generar_canciones on drawn counts *)

\* Counts asked for: negative, zero and positive.
ConteosGenerados == (0 - 1)..MaxGen

\* What _generar_canciones(n_canciones) hands back when the generator is in
\* state r: range(n_canciones) is empty for a count of 0 or less, and the
\* method has no raise.
RetGenerar(n_canciones, r) ==
    [n_canciones |-> n_canciones, rng0 |-> r, raised |-> "none",
     canciones |-> generar_canciones(n_canciones, r).canciones]

\* A built system whose generator has since been left in any state.
InitGenerador ==
    /\ rng \in RngEstados
    /\ canciones = SistemaInit(0).canciones
    /\ k_actual = KInicial
    /\ punto_consulta = <<>>
    /\ vecinos_cercanos = <<>>
    /\ k_slider = KInicial
    /\ energia_slider = SliderInicial
    /\ bailabilidad_slider = SliderInicial
    /\ valencia_slider = SliderInicial
    /\ random_values = <<>>
    /\ pagina_cargada = FALSE
    /\ llamada = SinLlamada
    /\ resultado = SinResultado
    /\ primera = <<>>
    /\ generacion = <<>>
    /\ distancia = <<>>
    /\ peticiones = <<>>

\* A call of _generar_canciones: it draws from the process-global generator
\* and returns the list; it assigns no field.
LlamarGenerar ==
    \E n_canciones \in ConteosGenerados :
        /\ generacion' = <<RetGenerar(n_canciones, rng)>>
        /\ rng' = generar_canciones(n_canciones, rng).rng
        /\ UNCHANGED <<sistemaVars, uiVars, llamada, resultado, primera,
                       distancia, peticiones>>

NextGenerador == LlamarGenerar

SpecGenerador == InitGenerador /\ [][NextGenerador]_vars

----------------------------------------------------------------------------
(* SpecDistancia: calcular_distancia on drawn pairs of points *)

\* The points drawn: every triple over these axis values.
ValoresEje == {SliderMin, 7, SliderMax}
PuntosDistancia == {Punto(e, b, v) : e \in ValoresEje, b \in ValoresEje,
                                     v \in ValoresEje}

InitDistancia == InitGenerador /\ rng = NpRandomSeed(Semilla)

\* calcular_distancia called on (a, b), on (b, a) and on (a, a); it reads its
\* arguments and assigns nothing.
LlamarDistancia ==
    \E a \in PuntosDistancia, b \in PuntosDistancia :
        /\ distancia' = <<[a |-> a, b |-> b,
                           ab |-> calcular_distancia(a, b),
                           ba |-> calcular_distancia(b, a),
                           aa |-> calcular_distancia(a, a)]>>
        /\ UNCHANGED <<sistemaVars, rng, uiVars, llamada, resultado, primera,
                       generacion, peticiones>>

NextDistancia == LlamarDistancia

SpecDistancia == InitDistancia /\ [][NextDistancia]_vars

----------------------------------------------------------------------------
(* SpecCatalogo100: the page over the catalog of 100 songs of line 39 *)

InitCatalogo100 ==
    \E r0 \in RngEstados :
        LET sis == SistemaDe(NCancionesReal, r0)
        IN /\ canciones = sis.canciones
           /\ rng = sis.rng
           /\ vecinos_cercanos = sis.vecinos_cercanos
           /\ punto_consulta = <<PuntoInicial>>
           /\ k_actual = KInicial
           /\ k_slider = KInicial
           /\ energia_slider = SliderInicial
           /\ bailabilidad_slider = SliderInicial
           /\ valencia_slider = SliderInicial
           /\ random_values = <<>>
           /\ pagina_cargada = FALSE
           /\ llamada = SinLlamada
           /\ resultado = SinResultado
           /\ primera = <<>>
           /\ generacion = <<>>
           /\ distancia = <<>>
           /\ peticiones = <<>>

\* The K slider moved to any step of its range (min 1, max 30, step 1).
CambiarKRango ==
    \E k \in (KSliderMin..KSliderMax) \ {k_slider} :
        /\ pagina_cargada
        /\ k_slider' = k
        /\ ActualizarVisualizacion(k, energia_slider, bailabilidad_slider,
                                   valencia_slider, random_values)
        /\ UNCHANGED <<energia_slider, bailabilidad_slider, valencia_slider,
                       random_values, pagina_cargada, rng>>

NextCatalogo100 ==
    \/ CargarPagina
    \/ CambiarKRango
    \/ CambiarEnergia
    \/ CambiarValencia
    \/ ClicReset

SpecCatalogo100 == InitCatalogo100 /\ [][NextCatalogo100]_vars

----------------------------------------------------------------------------
(* SpecConcurrente: requests served by threads of the development server *)

\* Requests in flight at once.
MaxPeticiones == 2

\* What the requests ask for: the arguments actualizar_visualizacion hands
\* to crear_grafico_3d.
PuntosPeticion == {PuntoInicial, Punto(SliderMin, SliderMin, SliderMin),
                   Punto(SliderMax, SliderMax, SliderMax)}
KPeticion == {KSliderMin, KSliderMin + 1, KInicial}

InitConcurrente ==
    /\ Init
    /\ rng = SistemaInit(0).rng

\* A request arrives and a thread is about to enter crear_grafico_3d with its
\* own k and point.
RecibirPeticion ==
    \E k \in KPeticion, punto \in PuntosPeticion :
        /\ Len(peticiones) < MaxPeticiones
        /\ peticiones' = Append(peticiones,
                                [pc |-> "punto_consulta", k |-> k,
                                 punto |-> punto, resultado |-> SinResultado])
        /\ UNCHANGED <<sistemaVars, rng, uiVars, llamada, resultado, primera,
                       generacion, distancia>>

\* Lines 433-437 in the thread of request i: the shared field is assigned.
AsignarPuntoConsulta(i) ==
    /\ peticiones[i].pc = "punto_consulta"
    /\ punto_consulta' = <<peticiones[i].punto>>
    /\ peticiones' = [peticiones EXCEPT ![i].pc = "k_actual"]
    /\ UNCHANGED <<canciones, k_actual, vecinos_cercanos, rng, uiVars, llamada,
                   resultado, primera, generacion, distancia>>

\* Line 438 in the thread of request i.
AsignarKActual(i) ==
    /\ peticiones[i].pc = "k_actual"
    /\ k_actual' = peticiones[i].k
    /\ peticiones' = [peticiones EXCEPT ![i].pc = "recomendar"]
    /\ UNCHANGED <<canciones, punto_consulta, vecinos_cercanos, rng, uiVars,
                   llamada, resultado, primera, generacion, distancia>>

\* Lines 473-474 in the thread of request i: recomendar is called with the
\* shared self.sistema.punto_consulta as it is now and the thread's own k.
RecomendarCompartido(i) ==
    LET tras == ObjetosTrasLlamada(canciones, punto_consulta[1])
    IN /\ peticiones[i].pc = "recomendar"
       /\ peticiones' = [peticiones EXCEPT
                            ![i].pc = "fin",
                            ![i].resultado = recomendar(canciones,
                                                        punto_consulta[1],
                                                        peticiones[i].k)]
       /\ canciones' = tras.canciones
       /\ punto_consulta' = <<tras.punto>>
       /\ UNCHANGED <<k_actual, vecinos_cercanos, rng, uiVars, llamada,
                      resultado, primera, generacion, distancia>>

NextConcurrente ==
    \/ RecibirPeticion
    \/ \E i \in 1..Len(peticiones) : AsignarPuntoConsulta(i)
    \/ \E i \in 1..Len(peticiones) : AsignarKActual(i)
    \/ \E i \in 1..Len(peticiones) : RecomendarCompartido(i)

SpecConcurrente == InitConcurrente /\ [][NextConcurrente]_vars

----------------------------------------------------------------------------
(* Vocabulary of the properties *)

\* The call recorded in llamada was of operation op with a positive k.
LlamadaPositiva(op) == llamada.op = op /\ llamada.k > 0

NCatalogo == Len(canciones)
Vecinos == resultado.vecinos
NVecinos == Len(resultado.vecinos)
Retornado == resultado.raised = "none"

\* min(k, catalog size), written out.
MinKCatalogo == IF llamada.k <= NCatalogo THEN llamada.k ELSE NCatalogo

\* Sum of squared per-axis differences between the query of the call and c.
SumaCuadrados(c) ==
    LET q == llamada.punto[1]
    IN (q.energia - c.energia) * (q.energia - c.energia)
       + (q.bailabilidad - c.bailabilidad) * (q.bailabilidad - c.bailabilidad)
       + (q.valencia - c.valencia) * (q.valencia - c.valencia)

\* d is the Euclidean distance from the query to c, to 1/Escala.
EsDistanciaA(d, c) ==
    /\ d >= 0
    /\ d * d <= Escala * Escala * SumaCuadrados(c)
    /\ Escala * Escala * SumaCuadrados(c) < (d + 1) * (d + 1)

\* The ids of the songs in the result.
IdsVecinos == {Vecinos[i][1].id : i \in 1..NVecinos}

\* Number of neighbours of genre g, counted on the neighbour sequence.
CuentaEnVecinos(g) == Cardinality({i \in 1..NVecinos : Vecinos[i][1].genero = g})
GenerosVecinos == {Vecinos[i][1].genero : i \in 1..NVecinos}
PrimeraAparicion(g) ==
    CHOOSE i \in 1..NVecinos :
        /\ Vecinos[i][1].genero = g
        /\ \A j \in 1..(i - 1) : Vecinos[j][1].genero # g

\* The returned count mapping, its keys and the returned label.
Conteo == resultado.conteo[1]
ClavesConteo == {Conteo[i][1] : i \in 1..Len(Conteo)}
GeneroRecomendado == resultado.genero[1]

RECURSIVE SumaValores(_)
SumaValores(items) ==
    IF items = <<>> THEN 0
    ELSE items[Len(items)][2] + SumaValores(SubSeq(items, 1, Len(items) - 1))

----------------------------------------------------------------------------
(* Properties of encontrar_k_vecinos, checked under SpecEngine *)

\* C1: for a positive k, encontrar_k_vecinos returns (no error) exactly
\* min(k, catalog size) pairs, in non-decreasing order of distance; with k
\* above the catalog size that is the whole catalog.
C1_LongitudYOrden ==
    LlamadaPositiva("encontrar_k_vecinos") =>
        /\ Retornado
        /\ NVecinos = MinKCatalogo
        /\ \A i \in 1..(NVecinos - 1) : Vecinos[i][2] <= Vecinos[i + 1][2]
        /\ (llamada.k > NCatalogo => NVecinos = NCatalogo)

\* C1 witness: k exceeds a catalog of at least two songs, and the whole
\* catalog came back with distances that do grow.
C1_Witness ==
    /\ LlamadaPositiva("encontrar_k_vecinos")
    /\ NCatalogo >= 2
    /\ llamada.k > NCatalogo
    /\ NVecinos = NCatalogo
    /\ Vecinos[1][2] < Vecinos[NVecinos][2]

\* C2: the pairs returned are the k nearest: each pair is a catalog song with
\* its Euclidean distance to the query, no song appears twice, and no song
\* left out is strictly closer than a returned one.
C2_MasCercanos ==
    LlamadaPositiva("encontrar_k_vecinos") =>
        /\ \A i \in 1..NVecinos :
              /\ Vecinos[i][1].id + 1 \in 1..NCatalogo
              /\ Vecinos[i][1] = canciones[Vecinos[i][1].id + 1]
              /\ EsDistanciaA(Vecinos[i][2], Vecinos[i][1])
        /\ \A i, j \in 1..NVecinos : i # j => Vecinos[i][1].id # Vecinos[j][1].id
        /\ \A c \in 1..NCatalogo :
              (canciones[c].id \notin IdsVecinos) =>
                 \A i \in 1..NVecinos :
                    ~ (SumaCuadrados(canciones[c]) < SumaCuadrados(Vecinos[i][1]))

\* C2 witness: a song was left out that is strictly farther than every
\* returned one, although it comes first in the catalog.
C2_Witness ==
    /\ LlamadaPositiva("encontrar_k_vecinos")
    /\ NCatalogo >= 3
    /\ NVecinos = 2
    /\ canciones[1].id \notin IdsVecinos
    /\ \A i \in 1..NVecinos :
          SumaCuadrados(Vecinos[i][1]) < SumaCuadrados(canciones[1])
    /\ \E i \in 1..NVecinos : Vecinos[i][1].valencia # llamada.punto[1].valencia

\* C3: songs at equal distance keep their catalog order in the result, and
\* of a group of equidistant songs cut by k the earliest in the catalog stay.
C3_Estable ==
    LlamadaPositiva("encontrar_k_vecinos") =>
        /\ \A i, j \in 1..NVecinos :
              (i < j /\ Vecinos[i][2] = Vecinos[j][2])
                  => Vecinos[i][1].id < Vecinos[j][1].id
        /\ \A c \in 1..NCatalogo :
              (canciones[c].id \notin IdsVecinos) =>
                 \A i \in 1..NVecinos :
                    (SumaCuadrados(canciones[c]) = SumaCuadrados(Vecinos[i][1]))
                        => Vecinos[i][1].id < canciones[c].id

\* C3 witness: two returned songs at different points tie, and a third song
\* at the same distance was cut off by k.
C3_Witness ==
    /\ LlamadaPositiva("encontrar_k_vecinos")
    /\ NVecinos >= 2
    /\ \E i, j \in 1..NVecinos :
          /\ i < j
          /\ Vecinos[i][2] = Vecinos[j][2]
          /\ Vecinos[i][1].energia # Vecinos[j][1].energia
    /\ \E c \in 1..NCatalogo :
          /\ canciones[c].id \notin IdsVecinos
          /\ SumaCuadrados(canciones[c]) = SumaCuadrados(Vecinos[NVecinos][1])

----------------------------------------------------------------------------
(* Properties of recomendar, checked under SpecEngine *)

\* C4: on a non-empty catalog and a positive k, recomendar returns a label
\* that is a key of the returned count mapping and whose count no other key
\* exceeds.
C4_GeneroEsMaximo ==
    (LlamadaPositiva("recomendar") /\ NCatalogo > 0) =>
        /\ Retornado
        /\ GeneroRecomendado \in ClavesConteo
        /\ \E i \in 1..Len(Conteo) :
              /\ Conteo[i][1] = GeneroRecomendado
              /\ \A j \in 1..Len(Conteo) : Conteo[j][2] <= Conteo[i][2]
        /\ \A g \in GenerosVecinos :
              CuentaEnVecinos(g) <= CuentaEnVecinos(GeneroRecomendado)

\* C4 witness: the nearest neighbour's genre lost the vote.
C4_Witness ==
    /\ LlamadaPositiva("recomendar")
    /\ Retornado
    /\ NVecinos >= 3
    /\ GeneroRecomendado # Vecinos[1][1].genero
    /\ Len(Conteo) = 2
    /\ Conteo[1][2] < Conteo[2][2]

\* The scenario of C5: catalog A(X,(0,0,0)), B(Y,(10,0,0)), C(X,(100,100,100)),
\* query (1,0,0), k = 2.
EscenarioC5 ==
    /\ llamada = [op |-> "recomendar", punto |-> <<Punto(1, 0, 0)>>, k |-> 2]
    /\ canciones = <<Cancion(0, "X", 0, 0, 0), Cancion(1, "Y", 10, 0, 0),
                     Cancion(2, "X", 100, 100, 100)>>

\* C5: when several labels tie for the largest count among the neighbours,
\* recomendar returns the tied label that occurs first in the neighbour
\* sequence; in the scenario the neighbours are [A (1), B (9)], the counts
\* {X: 1, Y: 1} and the label X.
C5_EmpatePrimero ==
    /\ (llamada.op = "recomendar" /\ Retornado) =>
          \A g \in GenerosVecinos :
             (\A h \in GenerosVecinos : CuentaEnVecinos(h) <= CuentaEnVecinos(g))
                 => PrimeraAparicion(GeneroRecomendado) <= PrimeraAparicion(g)
    /\ EscenarioC5 =>
          /\ Retornado
          /\ Vecinos = <<<<canciones[1], 1 * Escala>>, <<canciones[2], 9 * Escala>>>>
          /\ Conteo = <<<<"X", 1>>, <<"Y", 1>>>>
          /\ GeneroRecomendado = "X"

\* C5 witness: the scenario was run.
C5_Witness == EscenarioC5 /\ Retornado /\ NVecinos = 2

\* C6: on a non-empty catalog and a positive k, the counts returned by
\* recomendar sum to min(k, catalog size), the number of neighbours returned,
\* and each count is at least 1.
C6_SumaConteo ==
    (LlamadaPositiva("recomendar") /\ NCatalogo > 0) =>
        /\ Retornado
        /\ SumaValores(Conteo) = MinKCatalogo
        /\ SumaValores(Conteo) = NVecinos
        /\ \A i \in 1..Len(Conteo) : Conteo[i][2] >= 1

\* C6 witness: k was clamped, and a genre was counted more than once beside
\* another genre.
C6_Witness ==
    /\ LlamadaPositiva("recomendar")
    /\ Retornado
    /\ llamada.k > NCatalogo
    /\ Len(Conteo) = 2
    /\ \E i \in 1..Len(Conteo) : Conteo[i][2] >= 2

\* C7 (as claimed): for k <= 0 both operations signal InvalidParameter and
\* return nothing.
C7_KNoPositivoRechazado ==
    (llamada.op # "none" /\ llamada.k <= 0) =>
        /\ resultado.raised = "InvalidParameter"
        /\ resultado.vecinos = <<>>
        /\ resultado.genero = <<>>

\* C8 (as claimed): on an empty catalog recomendar with a positive k signals
\* EmptyCatalog, and no operation returns an empty neighbour list as a result.
C8_CatalogoVacioSenalado ==
    /\ (LlamadaPositiva("recomendar") /\ NCatalogo = 0)
          => resultado.raised = "EmptyCatalog"
    /\ (llamada.op # "none" /\ llamada.k > 0 /\ Retornado) => NVecinos > 0

----------------------------------------------------------------------------
(* Properties of the application, checked under Spec *)

\* The catalog np.random.seed(Semilla) determines.
CatalogoDeSemilla == generar_canciones(NCanciones, NpRandomSeed(Semilla)).canciones

\* C9: building the system gives the same catalog every time (ids, names,
\* genres and feature values, in order): the first build gives the catalog of
\* the seed whatever state the generator was in, and a build made later,
\* after any draws of the random-query button, gives that catalog again.
C9_CatalogoReproducible ==
    /\ canciones = CatalogoDeSemilla
    /\ [][Main => canciones' = canciones]_vars

\* C9 witness: the system was built again while the page held a random query,
\* that is after draws from the generator.
C9_Witness ==
    /\ random_values # <<>>
    /\ punto_consulta = <<PuntoInicial>>
    /\ k_actual = KInicial
    /\ Len(canciones) = NCanciones

\* C10: recomendar is a function of (catalog, query, k): a call with the
\* query and k of the first call of the run returns what the first call
\* returned, whatever happened in between, and a call that repeats the
\* previous call's query and k returns the previous result.
C10_RecomendarDeterminista ==
    /\ [](primera # <<>> /\ llamada = primera[1].llamada
             => resultado = primera[1].resultado)
    /\ [][llamada' = llamada => resultado' = resultado]_vars

\* C10 witness: the first call's query and k were asked again after a
\* random-query click and a reset.
C10_Witness ==
    /\ primera # <<>>
    /\ llamada = primera[1].llamada
    /\ resultado.raised = "none"
    /\ random_values = <<>>
    /\ rng # SistemaInit(0).rng

----------------------------------------------------------------------------
(* Properties of _generar_canciones, checked under SpecGenerador *)

Generadas == generacion[1].canciones
GeneracionPositiva == generacion # <<>> /\ generacion[1].n_canciones > 0

\* The names in self.generos.
ConjuntoGeneros == {generos[i] : i \in 1..Len(generos)}

\* C11: for a positive count n the generator returns exactly n songs and the
\* song at position i (from 0) has id i, so no two songs share an id.
C11_IdsSecuenciales ==
    GeneracionPositiva =>
        /\ generacion[1].raised = "none"
        /\ Len(Generadas) = generacion[1].n_canciones
        /\ \A i \in 1..Len(Generadas) : Generadas[i].id = i - 1
        /\ \A i, j \in 1..Len(Generadas) :
              i # j => Generadas[i].id # Generadas[j].id

\* C11 witness: the largest count was generated from a generator state other
\* than the seed's.
C11_Witness ==
    /\ GeneracionPositiva
    /\ generacion[1].n_canciones = MaxGen
    /\ generacion[1].rng0 # NpRandomSeed(Semilla)
    /\ Len(Generadas) = MaxGen

\* C12: every feature of every generated song lies in the [min, max] interval
\* of its genre on that axis, and so in [0, 100].
C12_EnRango ==
    generacion # <<>> =>
        \A i \in 1..Len(Generadas) :
            LET c == Generadas[i]
                rangos == caracteristicas_genero[c.genero]
            IN /\ c.genero \in ConjuntoGeneros
               /\ rangos[1][1] <= c.energia /\ c.energia <= rangos[1][2]
               /\ rangos[2][1] <= c.bailabilidad /\ c.bailabilidad <= rangos[2][2]
               /\ rangos[3][1] <= c.valencia /\ c.valencia <= rangos[3][2]
               /\ \A x \in {c.energia, c.bailabilidad, c.valencia} :
                     SliderMin <= x /\ x <= SliderMax

\* C12 witness: two songs of different genres were generated, one of them
\* with an energia strictly inside its genre's energia interval and outside
\* its genre's valencia interval.
C12_Witness ==
    /\ GeneracionPositiva
    /\ \E i, j \in 1..Len(Generadas) : Generadas[i].genero # Generadas[j].genero
    /\ \E i \in 1..Len(Generadas) :
          LET rangos == caracteristicas_genero[Generadas[i].genero]
          IN /\ rangos[1][1] < Generadas[i].energia
             /\ Generadas[i].energia < rangos[1][2]
             /\ Generadas[i].energia > rangos[3][2]

\* C13 (as claimed): a count of 0 or less is rejected with InvalidParameter
\* and yields no catalog, not even an empty one.
C13_ConteoRechazado ==
    (generacion # <<>> /\ generacion[1].n_canciones <= 0) =>
        generacion[1].raised = "InvalidParameter"

----------------------------------------------------------------------------
(* Properties of calcular_distancia, checked under SpecDistancia *)

\* Sum of the squared per-axis differences of two points.
SumaCuadradosEntre(a, b) ==
    (a.energia - b.energia) * (a.energia - b.energia)
    + (a.bailabilidad - b.bailabilidad) * (a.bailabilidad - b.bailabilidad)
    + (a.valencia - b.valencia) * (a.valencia - b.valencia)

\* C14: calcular_distancia(a, b) is the square root of the sum of the squared
\* per-axis differences (to 1/Escala); it is not negative, it is 0 from a
\* point to itself, and it is the same in both directions.
C14_DistanciaEuclidiana ==
    distancia # <<>> =>
        LET d == distancia[1]
            s2 == Escala * Escala * SumaCuadradosEntre(d.a, d.b)
        IN /\ d.ab >= 0
           /\ d.ab * d.ab <= s2
           /\ s2 < (d.ab + 1) * (d.ab + 1)
           /\ d.aa = 0
           /\ d.ab = d.ba

\* C14 witness: the distance between two points that differ on every axis.
C14_Witness ==
    /\ distancia # <<>>
    /\ distancia[1].a.energia # distancia[1].b.energia
    /\ distancia[1].a.bailabilidad # distancia[1].b.bailabilidad
    /\ distancia[1].a.valencia > distancia[1].b.valencia
    /\ distancia[1].ab > Escala
    /\ distancia[1].ab = distancia[1].ba

----------------------------------------------------------------------------
(* Frame of the engine operations, checked under SpecEngine *)

\* C15: a call of encontrar_k_vecinos or of recomendar leaves the catalog
\* (length, order, every field of every song), the query it was handed, and
\* the stored k_actual, punto_consulta and vecinos_cercanos as they were.
C15_SinEfectos ==
    [][\A punto \in Consultas, k \in KValores :
          (LlamarEncontrar(punto, k) \/ LlamarRecomendar(punto, k)) =>
              /\ canciones' = canciones
              /\ llamada'.punto = <<punto>>
              /\ k_actual' = k_actual
              /\ punto_consulta' = punto_consulta
              /\ vecinos_cercanos' = vecinos_cercanos]_vars

\* C15 witness: recomendar returned the whole catalog of three songs with the
\* song stored last as nearest neighbour, and the catalog is still numbered
\* in storage order.
C15_Witness ==
    /\ llamada.op = "recomendar"
    /\ Retornado
    /\ NCatalogo = MaxCat
    /\ NVecinos = NCatalogo
    /\ Vecinos[1][1] = canciones[NCatalogo]
    /\ Vecinos[1][2] < Vecinos[2][2]
    /\ \A i \in 1..NCatalogo : canciones[i].id = i - 1

----------------------------------------------------------------------------
(* The catalog under the events of the page, checked under Spec *)

\* C16: no event of the page (load, K-slider change, feature-slider change,
\* random-query click, reset click), with the crear_grafico_3d and recomendar
\* calls it triggers, changes the catalog: the same songs, in the same order,
\* with the same fields as construction produced.
C16_CatalogoInmutable == [][canciones' = canciones]_vars

\* C16 witness: the K slider was moved to its maximum, a random query was
\* drawn and a feature slider was moved after it; the recommendation then
\* returned the whole catalog as neighbours.
C16_Witness ==
    /\ pagina_cargada
    /\ k_slider = KSliderMax
    /\ random_values # <<>>
    /\ energia_slider # random_values[1].energia
    /\ llamada.op = "recomendar"
    /\ Retornado
    /\ NVecinos = NCanciones
    /\ Vecinos[1][1] # canciones[1]
    /\ NCatalogo = NCanciones

----------------------------------------------------------------------------
(* Properties of the page over the 100 songs, checked under SpecCatalogo100 *)

\* C20: with the K slider anywhere in 1..30 and the startup catalog of 100
\* songs, every recomendar call of the page returns normally with exactly K
\* neighbours, at least one: K never exceeds the catalog, so the slice never
\* shortens the list, and the count mapping handed to max() is never empty.
C20_KExactoSinRecorte ==
    llamada.op = "recomendar" =>
        /\ llamada.k \in KSliderMin..KSliderMax
        /\ NCatalogo = NCancionesReal
        /\ llamada.k <= NCatalogo
        /\ resultado.raised = "none"
        /\ NVecinos = llamada.k
        /\ NVecinos > 0
        /\ resultado.conteo # <<>>
        /\ Conteo # <<>>

\* C20 witness: the K slider at its maximum after a feature slider was moved;
\* thirty neighbours came back, of more than one genre.
C20_Witness ==
    /\ llamada.op = "recomendar"
    /\ k_slider = KSliderMax
    /\ llamada.k = KSliderMax
    /\ energia_slider = SliderMax
    /\ Retornado
    /\ NVecinos = KSliderMax
    /\ NCatalogo = NCancionesReal
    /\ Len(Conteo) > 1

\* The eight genre names of line 26.
OchoGeneros ==
    {"Pop", "Rock", "EDM", "Jazz", "Reggaeton", "Indie", "Hip Hop", "Clasica"}

\* C18: every song of the catalog carries one of the eight names of
\* self.generos, and so does every key of the count mapping and the label
\* recomendar returns; each of them has an entry in colores_generos.
C18_EtiquetasCerradas ==
    /\ ConjuntoGeneros = OchoGeneros
    /\ \A i \in 1..NCatalogo :
           /\ canciones[i].genero \in OchoGeneros
           /\ canciones[i].genero \in DOMAIN colores_generos
    /\ (llamada.op = "recomendar" /\ Retornado) =>
           /\ ClavesConteo \subseteq OchoGeneros
           /\ ClavesConteo \subseteq DOMAIN colores_generos
           /\ GeneroRecomendado \in OchoGeneros
           /\ GeneroRecomendado \in DOMAIN colores_generos

\* C18 witness: the catalog of 100 songs holds all eight genres, and a
\* recommendation over thirty neighbours counted at least three of them.
C18_Witness ==
    /\ {canciones[i].genero : i \in 1..NCatalogo} = OchoGeneros
    /\ llamada.op = "recomendar"
    /\ Retornado
    /\ NVecinos = KSliderMax
    /\ Cardinality(ClavesConteo) >= 3
    /\ GeneroRecomendado \in ClavesConteo

----------------------------------------------------------------------------
(* The query of the page, checked under Spec *)

\* C19: once the page is loaded, the query point actualizar_visualizacion
\* hands to recomendar is the triple the three feature sliders show, also
\* when a feature slider is moved after a random-query click.
C19_ConsultaSigueSliders ==
    (pagina_cargada /\ llamada.op = "recomendar") =>
        llamada.punto[1] = Punto(energia_slider, bailabilidad_slider,
                                 valencia_slider)

----------------------------------------------------------------------------
(* Requests served at once, checked under SpecConcurrente *)

\* C17: a request that has finished holds the neighbours, the count mapping
\* and the label of its own point and its own k on the catalog, whatever the
\* other request did in between.
C17_CadaPeticionLoSuyo ==
    \A i \in 1..Len(peticiones) :
        peticiones[i].pc = "fin" =>
            peticiones[i].resultado =
                recomendar(canciones, peticiones[i].punto, peticiones[i].k)

----------------------------------------------------------------------------
(* The query point and the reset button, checked under Spec *)

\* x is a value a feature slider can show.
EnRangoSlider(x) == SliderMin <= x /\ x <= SliderMax
\* x is a value the random-query button can draw.
EnRangoAleatorio(x) == RandomMin <= x /\ x <= RandomMax

\* C21: every coordinate of the point a recommendation is computed for lies
\* in 0..100: the sliders stay in 0..100 and a stored random query has every
\* coordinate in 10..90.
C21_ConsultaEnRango ==
    /\ EnRangoSlider(energia_slider)
    /\ EnRangoSlider(bailabilidad_slider)
    /\ EnRangoSlider(valencia_slider)
    /\ random_values # <<>> =>
           /\ EnRangoAleatorio(random_values[1].energia)
           /\ EnRangoAleatorio(random_values[1].bailabilidad)
           /\ EnRangoAleatorio(random_values[1].valencia)
    /\ llamada.op = "recomendar" =>
           /\ EnRangoSlider(llamada.punto[1].energia)
           /\ EnRangoSlider(llamada.punto[1].bailabilidad)
           /\ EnRangoSlider(llamada.punto[1].valencia)

\* C21 witness: a recommendation computed for a drawn random point that is
\* not the initial one, while a feature slider stands at its maximum.
C21_Witness ==
    /\ pagina_cargada
    /\ llamada.op = "recomendar"
    /\ random_values # <<>>
    /\ llamada.punto = random_values
    /\ llamada.punto[1].energia > SliderInicial
    /\ llamada.punto[1].valencia < SliderInicial
    /\ energia_slider = SliderMax

\* C22: a reset click clears the stored random query, puts the three feature
\* sliders at 50 and computes the recommendation for (50, 50, 50) with the K
\* of the slider; the K slider and the catalog stay as they were.
C22_ResetRestablece ==
    [][ClicReset =>
          /\ random_values' = <<>>
          /\ energia_slider' = SliderInicial
          /\ bailabilidad_slider' = SliderInicial
          /\ valencia_slider' = SliderInicial
          /\ llamada'.op = "recomendar"
          /\ llamada'.punto = <<Punto(SliderInicial, SliderInicial,
                                      SliderInicial)>>
          /\ llamada'.k = k_slider
          /\ resultado' = recomendar(canciones, PuntoInicial, k_slider)
          /\ k_slider' = k_slider
          /\ canciones' = canciones]_vars

\* C22 witness: random queries were drawn and the K slider was moved, and the
\* page now stands reset: no stored query, sliders at 50, the recommendation
\* of (50, 50, 50) for the K of the slider.
C22_Witness ==
    /\ pagina_cargada
    /\ rng # SistemaInit(0).rng
    /\ k_slider = KSliderMax
    /\ random_values = <<>>
    /\ energia_slider = SliderInicial
    /\ bailabilidad_slider = SliderInicial
    /\ valencia_slider = SliderInicial
    /\ llamada = [op |-> "recomendar", punto |-> <<PuntoInicial>>,
                  k |-> KSliderMax]
    /\ Retornado

====
